---- MODULE Spec2Model ----
(***************************************************************************)
(* Model of the document chunking service (app/service/document_service.py)*)
(* and of the request schema in front of it (app/models/schemas/document.py)*)
(*                                                                         *)
(* A text is a sequence of one-character strings.  Every loop of the       *)
(* service is modelled one iteration per step, so that termination and the *)
(* chunks emitted so far are visible in the states.                        *)
(***************************************************************************)
EXTENDS Integers, Sequences, FiniteSets, TLC

(***************************************************************************)
(* Bounds of the model.                                                    *)
(***************************************************************************)
\* Every text of at most this many characters over Chars is an input.
MaxTextLen == 3
\* Direct calls of a strategy take chunk_size in 1..MaxSize, overlap < size.
MaxSize == 3
\* A loop is followed for at most this many emitted chunks.
MaxChunks == 6
\* A PDF has at most this many pages.
MaxPages == 2

(***************************************************************************)
(* Program constants: the bounds the request schema puts on its fields.    *)
(***************************************************************************)
TextMinLength == 1
ChunkSizeGe == 100
ChunkSizeLe == 8000
ChunkOverlapGe == 0
ChunkOverlapLe == 1000
TextsMinItems == 1
TextsMaxItems == 100
\* FileExtractor.MAX_FILE_SIZE, 10 * 1024 * 1024 bytes.
MaxFileSize == 10485760

(***************************************************************************)
(* Characters and texts.                                                   *)
(***************************************************************************)
Chars == {"a", "b", " ", ".", "\n"}

\* str.split() and str.strip() treat these as whitespace.
IsSpace(c) == c \in {" ", "\n", "\t", "\r"}

\* The character class [.!?] of the sentence pattern.
IsTerminal(c) == c \in {".", "!", "?"}

Min(a, b) == IF a < b THEN a ELSE b

Max(a, b) == IF a > b THEN a ELSE b

\* Python's s[i:j]: a negative index counts from the end, and both are clamped.
ClampIndex(i, n) == IF i < 0 THEN Max(0, n + i) ELSE Min(i, n)

Slice(s, i, j) ==
    LET lo == ClampIndex(i, Len(s))
        hi == ClampIndex(j, Len(s))
    IN  IF lo >= hi THEN << >> ELSE SubSeq(s, lo + 1, hi)

\* str.find(sub): the lowest 0-based index where sub occurs, or -1.
Find(s, sub) ==
    LET hits == {i \in 0..(Len(s) - Len(sub)) : SubSeq(s, i + 1, i + Len(sub)) = sub}
    IN  IF hits = {} THEN -1 ELSE CHOOSE i \in hits : \A j \in hits : i <= j

RECURSIVE Join(_, _)
\* sep.join(parts)
Join(parts, sep) ==
    IF parts = << >> THEN << >>
    ELSE IF Len(parts) = 1 THEN parts[1]
    ELSE parts[1] \o sep \o Join(Tail(parts), sep)

RECURSIVE LStrip(_)
LStrip(s) == IF s # << >> /\ IsSpace(s[1]) THEN LStrip(Tail(s)) ELSE s

RECURSIVE RStrip(_)
RStrip(s) ==
    IF s # << >> /\ IsSpace(s[Len(s)]) THEN RStrip(SubSeq(s, 1, Len(s) - 1)) ELSE s

\* str.strip()
Strip(s) == RStrip(LStrip(s))

RECURSIVE SplitWords(_, _)
\* str.split(): the maximal runs of non-whitespace, in order; cur is the
\* word being read.
SplitWords(s, cur) ==
    IF s = << >> THEN (IF cur = << >> THEN << >> ELSE << cur >>)
    ELSE IF IsSpace(s[1])
         THEN (IF cur = << >> THEN << >> ELSE << cur >>) \o SplitWords(Tail(s), << >>)
         ELSE SplitWords(Tail(s), Append(cur, s[1]))

RECURSIVE SplitTerminal(_, _, _)
\* re.split(r'[.!?]+', s): the pieces between maximal runs of terminal
\* punctuation, the empty pieces at either end included; inrun says that the
\* previous character was part of a run.
SplitTerminal(s, cur, inrun) ==
    IF s = << >> THEN << cur >>
    ELSE IF IsTerminal(s[1])
         THEN (IF inrun THEN << >> ELSE << cur >>) \o SplitTerminal(Tail(s), << >>, TRUE)
         ELSE SplitTerminal(Tail(s), Append(cur, s[1]), FALSE)

RECURSIVE SplitBlank(_, _)
\* s.split('\n\n'): the separator is matched left to right, without overlap.
SplitBlank(s, cur) ==
    IF s = << >> THEN << cur >>
    ELSE IF Len(s) >= 2 /\ s[1] = "\n" /\ s[2] = "\n"
         THEN << cur >> \o SplitBlank(SubSeq(s, 3, Len(s)), << >>)
         ELSE SplitBlank(Tail(s), Append(cur, s[1]))

RECURSIVE StripNonEmpty(_)
\* [s.strip() for s in parts if s.strip()]
StripNonEmpty(parts) ==
    IF parts = << >> THEN << >>
    ELSE (IF Strip(parts[1]) = << >> THEN << >> ELSE << Strip(parts[1]) >>)
         \o StripNonEmpty(Tail(parts))

Words(t) == SplitWords(t, << >>)

Sentences(t) == StripNonEmpty(SplitTerminal(t, << >>, FALSE))

Paragraphs(t) == StripNonEmpty(SplitBlank(t, << >>))

(***************************************************************************)
(* Inputs.                                                                 *)
(***************************************************************************)
Strategies == {"character", "token", "sentence", "paragraph", "semantic"}

\* Longer texts in which a word, sentence or paragraph repeats, in which a
\* long sentence follows short ones, or in which the windows of the
\* specification's scenario fit.
Digits == <<"0", "1", "2", "3", "4", "5", "6", "7", "8", "9">>

ScenarioTexts ==
    { Digits,
      <<"b", " ", "a", " ", "b">>,
      <<"b", ".", "a", ".", "b">>,
      <<"a", ".", "b", ".", "c", "c", "c">>,
      <<"a", "\n", "\n", "b">>,
      <<"b", "\n", "\n", "a", "\n", "\n", "b">> }

Texts == UNION {[1..n -> Chars] : n \in 0..MaxTextLen} \cup ScenarioTexts

\* <<chunk_size, overlap>> of a direct call: 0 <= overlap < chunk_size.
CallConfigs ==
    {c \in (1..MaxSize) \X (0..MaxSize) : c[2] < c[1]} \cup {<<4, 1>>}

\* <<chunk_size, chunk_overlap>> of a request, on both sides of the schema's limits.
RequestConfigs ==
    {ChunkSizeGe - 1, ChunkSizeGe} \X {ChunkOverlapGe, 1, ChunkSizeGe, ChunkOverlapLe + 1}

(***************************************************************************)
(* State.                                                                  *)
(***************************************************************************)
VARIABLES
    pc,          \* "idle", a strategy's loop, "embedding", "attach", "done", "rejected", "failed"
    handler,     \* "call" (a strategy called directly), "chunk", "chunk_and_embed"
    text, strategy, chunk_size, overlap,   \* the arguments
    units,       \* words / sentences / paragraphs of the text
    start,       \* start (character) or start_idx (token) or start (sentence, paragraph)
    chunk_id,
    chunks,
    embeddings,  \* the gateway's answer: vector j is written j
    status,      \* HTTP status of the response, 0 while there is none
    source,      \* the uploaded file or the URL's answer; kind "none" without one
    decoders,    \* the format decoders invoked so far, in order
    text_parts,  \* text_parts of _extract_pdf_text: [page, text] per entry
    extracted,   \* the text the extractor returned
    extraction,  \* "none", "ok" or "failed"
    raised       \* status_code of the HTTPException the extractor raised, 0 if none

\* The state of the extractor.
extractor_vars == <<source, decoders, text_parts, extracted, extraction, raised>>

vars == <<pc, handler, text, strategy, chunk_size, overlap, units, start,
          chunk_id, chunks, embeddings, status, extractor_vars>>

Init ==
    /\ pc = "idle"
    /\ handler = "none"
    /\ text = << >>
    /\ strategy = "character"
    /\ chunk_size = 0
    /\ overlap = 0
    /\ units = << >>
    /\ start = 0
    /\ chunk_id = 0
    /\ chunks = << >>
    /\ embeddings = << >>
    /\ status = 0
    /\ source = [kind |-> "none"]
    /\ decoders = << >>
    /\ text_parts = << >>
    /\ extracted = << >>
    /\ extraction = "none"
    /\ raised = 0

(***************************************************************************)
(* Request validation and dispatch.                                        *)
(***************************************************************************)
\* DocumentChunkRequest: the constraints of its fields.  None relates
\* chunk_overlap to chunk_size.
ValidChunkRequest(t, cs, ov) ==
    /\ Len(t) >= TextMinLength
    /\ cs >= ChunkSizeGe /\ cs <= ChunkSizeLe
    /\ ov >= ChunkOverlapGe /\ ov <= ChunkOverlapLe

\* Semantic is given a loop of its own choosing.
LoopOf_misrouted(s) == IF s = "semantic" THEN "paragraph" ELSE s

\* The loop a strategy runs; semantic is the sentence strategy.
LoopOf(s) == IF s = "semantic" THEN "sentence" ELSE s

\* The units the strategy's function splits the text into before its loop.
UnitsOf(s, t) ==
    CASE s = "character" -> << >>
      [] s = "token" -> Words(t)
      [] s = "paragraph" -> Paragraphs(t)
      [] OTHER -> Sentences(t)

\* Entry of _chunk_by_<strategy>(text, chunk_size, overlap).
Enter(h, t, s, cs, ov) ==
    /\ pc' = LoopOf(s)
    /\ handler' = h
    /\ text' = t
    /\ strategy' = s
    /\ chunk_size' = cs
    /\ overlap' = ov
    /\ units' = UnitsOf(s, t)
    /\ start' = 0
    /\ chunk_id' = 0
    /\ chunks' = << >>
    /\ UNCHANGED <<embeddings, status, extractor_vars>>

\* A strategy's function called directly with a valid configuration.
Call ==
    /\ pc = "idle"
    /\ \E t \in Texts, s \in Strategies, c \in CallConfigs :
           Enter("call", t, s, c[1], c[2])

\* POST /documents/chunk or /documents/chunk-and-embed with a body the schema refuses.
RequestRejected ==
    /\ pc = "idle"
    /\ \E h \in {"chunk", "chunk_and_embed"}, t \in Texts, s \in Strategies,
          c \in RequestConfigs :
           /\ ~ValidChunkRequest(t, c[1], c[2])
           /\ pc' = "rejected"
           /\ handler' = h
           /\ text' = t
           /\ strategy' = s
           /\ chunk_size' = c[1]
           /\ overlap' = c[2]
           /\ status' = 422
           /\ UNCHANGED <<units, start, chunk_id, chunks, embeddings, extractor_vars>>

\* The same with a body the schema accepts: chunk_document dispatches on the strategy.
RequestAccepted ==
    /\ pc = "idle"
    /\ \E h \in {"chunk", "chunk_and_embed"}, t \in Texts, s \in Strategies,
          c \in RequestConfigs :
           /\ ValidChunkRequest(t, c[1], c[2])
           /\ Enter(h, t, s, c[1], c[2])

(***************************************************************************)
(* The strategies, one loop iteration per step.                            *)
(***************************************************************************)
DocumentChunk(id, content, s, e, md) ==
    [id |-> id, content |-> content, start_index |-> s, end_index |-> e,
     length |-> Len(content), metadata |-> md]

\* chunk_id is left as it was.
NextChunkId_stuck(id) == id

\* chunk_id += 1
NextChunkId(id) == id + 1

\* The overlap is forgotten: start = end.
NextWindowStart_nooverlap(end, ov) == end

\* start = end - overlap
NextWindowStart(end, ov) == end - ov

\* One iteration of the while loop of _chunk_by_character.
chunk_by_character ==
    /\ pc = "character"
    /\ start < Len(text)
    /\ Len(chunks) < MaxChunks
    /\ LET end == Min(start + chunk_size, Len(text))
           content == Slice(text, start, end)
       IN  /\ chunks' = Append(chunks,
                 DocumentChunk(chunk_id, content, start, end, [strategy |-> "character"]))
           /\ chunk_id' = NextChunkId(chunk_id)
           /\ start' = NextWindowStart(end, overlap)
    /\ UNCHANGED <<pc, handler, text, strategy, chunk_size, overlap, units,
                   embeddings, status, extractor_vars>>

\* text.find(chunk_words[0]) if chunk_words else 0
FirstUnitPos(t, us) == IF us = << >> THEN 0 ELSE Find(t, us[1])

\* One iteration of the while loop of _chunk_by_token.
chunk_by_token ==
    /\ pc = "token"
    /\ start < Len(units)
    /\ Len(chunks) < MaxChunks
    /\ LET end_idx == Min(start + chunk_size, Len(units))
           chunk_words == Slice(units, start, end_idx)
           content == Join(chunk_words, <<" ">>)
           start_pos == FirstUnitPos(text, chunk_words)
           end_pos == start_pos + Len(content)
       IN  /\ chunks' = Append(chunks,
                 DocumentChunk(chunk_id, content, start_pos, end_pos,
                     [strategy |-> "token", word_count |-> Len(chunk_words)]))
           /\ chunk_id' = NextChunkId(chunk_id)
           /\ start' = NextWindowStart(end_idx, overlap)
    /\ UNCHANGED <<pc, handler, text, strategy, chunk_size, overlap, units,
                   embeddings, status, extractor_vars>>

RECURSIVE Accumulate_overshoot(_, _, _, _)
\* The test that the next unit still fits is dropped: units are taken until
\* the running length reaches size.
Accumulate_overshoot(us, end, current_length, size) ==
    IF end < Len(us) /\ current_length < size
    THEN Accumulate_overshoot(us, end + 1, current_length + Len(us[end + 1]), size)
    ELSE end

RECURSIVE Accumulate(_, _, _, _)
\* The inner while loop of the sentence and paragraph strategies: the index
\* after the last unit taken while the running length stays within size.
Accumulate(us, end, current_length, size) ==
    IF end < Len(us) /\ current_length < size
       /\ current_length + Len(us[end + 1]) <= size
    THEN Accumulate(us, end + 1, current_length + Len(us[end + 1]), size)
    ELSE end

\* The end index once a unit too long for the chunk has been forced in.
AccumulateEnd(us, st, size) ==
    LET end == Accumulate(us, st, 0, size)
    IN  IF end = st /\ end < Len(us) THEN end + 1 ELSE end

\* The guard of one sentence is dropped: start = end - overlap.
NextSentenceStart_noprogress(st, end, ov) == end - ov

\* start = max(start + 1, end - overlap)
NextSentenceStart(st, end, ov) == Max(st + 1, end - ov)

\* The floor of one paragraph is dropped: start = max(start + 1, end - overlap // 2).
NextParagraphStart_nofloor(st, end, ov) == Max(st + 1, end - ov \div 2)

\* start = max(start + 1, end - max(1, overlap // 2))
NextParagraphStart(st, end, ov) == Max(st + 1, end - Max(1, ov \div 2))

\* One iteration of the outer while loop of _chunk_by_sentence.
chunk_by_sentence ==
    /\ pc = "sentence"
    /\ start < Len(units)
    /\ Len(chunks) < MaxChunks
    /\ LET end == AccumulateEnd(units, start, chunk_size)
           chunk_sentences == Slice(units, start, end)
           content == Join(chunk_sentences, <<".", " ">>)
           start_pos == Find(text, chunk_sentences[1])
           end_pos == start_pos + Len(content)
       IN  /\ IF chunk_sentences # << >>
              THEN /\ chunks' = Append(chunks,
                         DocumentChunk(chunk_id, content, start_pos, end_pos,
                             [strategy |-> "sentence",
                              sentence_count |-> Len(chunk_sentences)]))
                   /\ chunk_id' = NextChunkId(chunk_id)
              ELSE UNCHANGED <<chunks, chunk_id>>
           /\ start' = NextSentenceStart(start, end, overlap)
    /\ UNCHANGED <<pc, handler, text, strategy, chunk_size, overlap, units,
                   embeddings, status, extractor_vars>>

\* One iteration of the outer while loop of _chunk_by_paragraph.
chunk_by_paragraph ==
    /\ pc = "paragraph"
    /\ start < Len(units)
    /\ Len(chunks) < MaxChunks
    /\ LET end == AccumulateEnd(units, start, chunk_size)
           chunk_paragraphs == Slice(units, start, end)
           content == Join(chunk_paragraphs, <<"\n", "\n">>)
           start_pos == Find(text, chunk_paragraphs[1])
           end_pos == start_pos + Len(content)
       IN  /\ IF chunk_paragraphs # << >>
              THEN /\ chunks' = Append(chunks,
                         DocumentChunk(chunk_id, content, start_pos, end_pos,
                             [strategy |-> "paragraph",
                              paragraph_count |-> Len(chunk_paragraphs)]))
                   /\ chunk_id' = NextChunkId(chunk_id)
              ELSE UNCHANGED <<chunks, chunk_id>>
           /\ start' = NextParagraphStart(start, end, overlap)
    /\ UNCHANGED <<pc, handler, text, strategy, chunk_size, overlap, units,
                   embeddings, status, extractor_vars>>

\* _chunk_by_sentence from a given iteration to its return: the chunks it
\* returns when the loop stands at sentence st with chunk_id id and the
\* chunks acc.
RECURSIVE SentenceLoop(_, _, _, _, _, _, _)
SentenceLoop(t, us, size, ov, st, id, acc) ==
    IF st < Len(us)
    THEN LET end == AccumulateEnd(us, st, size)
             chunk_sentences == Slice(us, st, end)
             content == Join(chunk_sentences, <<".", " ">>)
             start_pos == Find(t, chunk_sentences[1])
             chunk == DocumentChunk(id, content, start_pos, start_pos + Len(content),
                          [strategy |-> "sentence",
                           sentence_count |-> Len(chunk_sentences)])
         IN  IF chunk_sentences # << >>
             THEN SentenceLoop(t, us, size, ov, NextSentenceStart(st, end, ov),
                               NextChunkId(id), Append(acc, chunk))
             ELSE SentenceLoop(t, us, size, ov, NextSentenceStart(st, end, ov),
                               id, acc)
    ELSE acc

\* The return value of _chunk_by_sentence(text, chunk_size, overlap).
SentenceChunks(t, size, ov) == SentenceLoop(t, Sentences(t), size, ov, 0, 0, << >>)

\* The condition of the running strategy's while loop.
LoopCondition ==
    IF pc = "character" THEN start < Len(text) ELSE start < Len(units)

\* The loop is over: the strategy returns its chunks and chunk_document its
\* response; chunk_and_embed goes on to the embedding call.
chunk_document_return ==
    /\ pc \in {"character", "token", "sentence", "paragraph"}
    /\ ~LoopCondition
    /\ pc' = CASE handler = "chunk_and_embed" -> "embedding"
               [] handler \in {"chunk_file", "chunk_url"} -> "tagging"
               [] OTHER -> "done"
    /\ status' = IF handler = "chunk" THEN 200 ELSE status
    /\ UNCHANGED <<handler, text, strategy, chunk_size, overlap, units, start,
                   chunk_id, chunks, embeddings, extractor_vars>>

\* DocumentChunkResponse of a finished chunk_document.
total_chunks == Len(chunks)

original_length == Len(text)

(***************************************************************************)
(* chunk_and_embed.                                                        *)
(***************************************************************************)
\* EmbeddingRequest(texts=...) refuses a list that is empty or too long.
ValidEmbeddingRequest(texts) ==
    Len(texts) >= TextsMinItems /\ Len(texts) <= TextsMaxItems

\* texts = [chunk.content for chunk in chunk_response.chunks]
ChunkTexts == [i \in 1..Len(chunks) |-> chunks[i].content]

Fail ==
    /\ pc' = "failed"
    /\ status' = 500

\* Building the EmbeddingRequest raises a validation error.
embedding_request_invalid ==
    /\ pc = "embedding"
    /\ ~ValidEmbeddingRequest(ChunkTexts)
    /\ Fail
    /\ UNCHANGED <<handler, text, strategy, chunk_size, overlap, units, start,
                   chunk_id, chunks, embeddings, extractor_vars>>

\* create_embeddings: the client call raises (the client of this repository
\* has no create_embeddings method, a remote call can fail) and the error is
\* re-raised as RuntimeError.
create_embeddings_raises ==
    /\ pc = "embedding"
    /\ ValidEmbeddingRequest(ChunkTexts)
    /\ Fail
    /\ UNCHANGED <<handler, text, strategy, chunk_size, overlap, units, start,
                   chunk_id, chunks, embeddings, extractor_vars>>

\* create_embeddings: the gateway answers with k vectors; nothing in the
\* service compares k with the number of texts.
create_embeddings_returns ==
    /\ pc = "embedding"
    /\ ValidEmbeddingRequest(ChunkTexts)
    /\ \E k \in 0..(Len(chunks) + 1) :
           embeddings' = [j \in 1..k |-> j]
    /\ pc' = "attach"
    /\ UNCHANGED <<handler, text, strategy, chunk_size, overlap, units, start,
                   chunk_id, chunks, status, extractor_vars>>

\* chunk.metadata["embedding"] = v
WithEmbedding(chunk, v) ==
    [chunk EXCEPT !.metadata = [embedding |-> v] @@ chunk.metadata]

\* for i, chunk in enumerate(chunks): chunk.metadata["embedding"] = embeddings[i]
\* The chunks before the first missing vector are annotated, then the index
\* error ends the loop.
AttachEmbeddings(cs, es) ==
    [i \in 1..Len(cs) |-> IF i <= Len(es) THEN WithEmbedding(cs[i], es[i]) ELSE cs[i]]

chunk_and_embed_attach ==
    /\ pc = "attach"
    /\ chunks' = AttachEmbeddings(chunks, embeddings)
    /\ IF Len(embeddings) < Len(chunks)
       THEN Fail
       ELSE pc' = "done" /\ status' = 200
    /\ UNCHANGED <<handler, text, strategy, chunk_size, overlap, units, start,
                   chunk_id, embeddings, extractor_vars>>

(***************************************************************************)
(* Extraction: FileExtractor and URLExtractor (app/utils/file_extractor.py) *)
(* and the routes and service methods that call them.  The format parsers   *)
(* and the HTTP fetch are inputs: a source says what each of them yields.   *)
(***************************************************************************)
DocxType == "application/vnd.openxmlformats-officedocument.wordprocessingml.document"

\* FileExtractor.SUPPORTED_TYPES
SUPPORTED_TYPES ==
    {"application/pdf", "text/plain", "text/markdown", DocxType, "text/html"}

\* The content types an upload declares: the supported ones and one other.
ContentTypes ==
    SUPPORTED_TYPES \cup {"application/zip"}

\* The branch of extract_text a content type takes.
DecoderOf_default_text(ct) ==
    CASE ct = "application/pdf" -> "pdf_plumber"
      [] ct = DocxType -> "docx"
      [] ct = "text/html" -> "html"
      [] OTHER -> "text_file"

DecoderOf(ct) ==
    CASE ct = "application/pdf" -> "pdf_plumber"
      [] ct \in {"text/plain", "text/markdown"} -> "text_file"
      [] ct = DocxType -> "docx"
      [] ct = "text/html" -> "html"
      [] OTHER -> "none"

\* What a text file decodes to, or a parser yields.
FileBodies == { << >>, <<" ">>, <<"a">>, <<" ", "a", ".", "b">> }

\* The text of one PDF page; the empty text stands for a page without text.
PageTexts == { << >>, <<"a">>, <<"b">> }

FileSizes == {MaxFileSize, MaxFileSize + 1}

\* How an extractor fares on a PDF of n pages: it reads them all, or it
\* raises after reading some of them.
Outcomes(n) == {[ok |-> TRUE, read |-> n]} \cup [ok : {FALSE}, read : 0..n]

\* A PDF: its pages, and how each of the two extractors fares on it.
PdfFiles ==
    UNION { { [kind |-> "file", content_type |-> "application/pdf", size |-> sz,
               pages |-> pg, plumber |-> a, pypdf |-> b] :
                 sz \in FileSizes, pg \in [1..n -> PageTexts],
                 a \in Outcomes(n), b \in Outcomes(n) } :
            n \in 0..MaxPages }

\* Any other file: what its decoder yields, or that the decoder raises.
OtherFiles ==
    [kind : {"file"}, content_type : ContentTypes \ {"application/pdf"},
     size : FileSizes, body : FileBodies, parser_raises : BOOLEAN]

Files == PdfFiles \cup OtherFiles

HttpStatuses == {200, 201, 404, 500}

\* A URL: how the fetch ends ("client_error" is an aiohttp.ClientError, "other"
\* any other exception such as a timeout), the status and the text of the page.
Urls ==
    [kind : {"url"}, fetch : {"ok"}, http_status : HttpStatuses, body : FileBodies]
    \cup [kind : {"url"}, fetch : {"client_error", "other"}, http_status : {0},
          body : {<< >>}]

\* The status a route answers with when its handler raised: /chunk-file maps
\* a ValueError (a pydantic validation error is one) to 400, and every route
\* maps any other exception, an HTTPException included, to 500.
RouteStatus(h, exception) ==
    IF h = "chunk_file" /\ exception = "ValueError" THEN 400 ELSE 500

\* The extractor raises HTTPException(status_code = code).
RaiseHTTP(code) ==
    /\ extraction' = "failed"
    /\ raised' = code
    /\ pc' = "failed"
    /\ status' = RouteStatus(handler, "HTTPException")

\* The extractor returns t.
ReturnText(t) ==
    /\ extraction' = "ok"
    /\ extracted' = t
    /\ pc' = "extracted"
    /\ UNCHANGED <<raised, status>>

chunker_vars == <<text, units, start, chunk_id, chunks, embeddings>>

\* POST /documents/extract-file, or /documents/chunk-file with parameters
\* FileChunkRequest accepts.
FileRequestAccepted ==
    /\ pc = "idle"
    /\ \E f \in Files :
         /\ source' = f
         /\ \/ /\ handler' = "extract_file"
               /\ UNCHANGED <<strategy, chunk_size, overlap>>
            \/ \E s \in Strategies, c \in RequestConfigs :
                  /\ ValidChunkRequest(<<"x">>, c[1], c[2])
                  /\ handler' = "chunk_file"
                  /\ strategy' = s
                  /\ chunk_size' = c[1]
                  /\ overlap' = c[2]
    /\ pc' = "extract_text"
    /\ UNCHANGED <<chunker_vars, status, decoders, text_parts, extracted,
                   extraction, raised>>

\* POST /documents/chunk-file with parameters FileChunkRequest refuses: the
\* validation error is a ValueError.
FileRequestRejected ==
    /\ pc = "idle"
    /\ \E s \in Strategies, c \in RequestConfigs :
         /\ ~ValidChunkRequest(<<"x">>, c[1], c[2])
         /\ strategy' = s
         /\ chunk_size' = c[1]
         /\ overlap' = c[2]
    /\ handler' = "chunk_file"
    /\ pc' = "rejected"
    /\ status' = RouteStatus("chunk_file", "ValueError")
    /\ UNCHANGED <<chunker_vars, extractor_vars>>

\* POST /documents/extract-url, or /documents/chunk-url with a body
\* URLChunkRequest accepts.
UrlRequestAccepted ==
    /\ pc = "idle"
    /\ \E u \in Urls :
         /\ source' = u
         /\ \/ /\ handler' = "extract_url"
               /\ UNCHANGED <<strategy, chunk_size, overlap>>
            \/ \E s \in Strategies, c \in RequestConfigs :
                  /\ ValidChunkRequest(<<"x">>, c[1], c[2])
                  /\ handler' = "chunk_url"
                  /\ strategy' = s
                  /\ chunk_size' = c[1]
                  /\ overlap' = c[2]
    /\ pc' = "fetch"
    /\ UNCHANGED <<chunker_vars, status, decoders, text_parts, extracted,
                   extraction, raised>>

\* POST /documents/chunk-url with a body URLChunkRequest refuses.
UrlRequestRejected ==
    /\ pc = "idle"
    /\ \E s \in Strategies, c \in RequestConfigs :
         /\ ~ValidChunkRequest(<<"x">>, c[1], c[2])
         /\ strategy' = s
         /\ chunk_size' = c[1]
         /\ overlap' = c[2]
    /\ handler' = "chunk_url"
    /\ pc' = "rejected"
    /\ status' = 422
    /\ UNCHANGED <<chunker_vars, extractor_vars>>

\* FileExtractor.extract_text: the size check, then the dispatch on the
\* declared content type.
extract_text ==
    /\ pc = "extract_text"
    /\ IF source.size > MaxFileSize
       THEN RaiseHTTP(400)
       ELSE IF DecoderOf(source.content_type) = "none"
            THEN RaiseHTTP(400)
            ELSE /\ pc' = DecoderOf(source.content_type)
                 /\ UNCHANGED <<extraction, raised, status>>
    /\ UNCHANGED <<handler, strategy, chunk_size, overlap, chunker_vars,
                   source, decoders, text_parts, extracted>>

\* PDF_AVAILABLE, DOCX_AVAILABLE or WEB_AVAILABLE is false: the library of the
\* branch is not installed.
library_unavailable ==
    /\ pc \in {"pdf_plumber", "docx", "html", "fetch"}
    /\ RaiseHTTP(500)
    /\ UNCHANGED <<handler, strategy, chunk_size, overlap, chunker_vars,
                   source, decoders, text_parts, extracted>>

RECURSIVE PageParts_unfiltered(_, _, _)
\* The test `if text:` is dropped: a page without text adds an empty entry.
PageParts_unfiltered(pages, from, n) ==
    IF from > n THEN << >>
    ELSE << [page |-> from, text |-> pages[from]] >>
         \o PageParts_unfiltered(pages, from + 1, n)

\* The entries text_parts gains from the first n pages: a page without text
\* adds none.
RECURSIVE PageParts(_, _, _)
PageParts(pages, from, n) ==
    IF from > n THEN << >>
    ELSE (IF pages[from] = << >> THEN << >>
          ELSE << [page |-> from, text |-> pages[from]] >>)
         \o PageParts(pages, from + 1, n)

\* _extract_pdf_text, the first try block: pdfplumber.
extract_pdf_plumber ==
    /\ pc = "pdf_plumber"
    /\ decoders' = Append(decoders, "pdfplumber")
    /\ text_parts' = PageParts(source.pages, 1, source.plumber.read)
    /\ pc' = IF source.plumber.ok THEN "pdf_join" ELSE "pdf_fallback"
    /\ UNCHANGED <<handler, strategy, chunk_size, overlap, chunker_vars, status,
                   source, extracted, extraction, raised>>

\* _extract_pdf_text, the except block: PyPDF2, appending to the same text_parts.
extract_pdf_fallback ==
    /\ pc = "pdf_fallback"
    /\ decoders' = Append(decoders, "PyPDF2")
    /\ text_parts' = text_parts
           \o PageParts(source.pages, 1, source.pypdf.read)
    /\ IF source.pypdf.ok
       THEN pc' = "pdf_join" /\ UNCHANGED <<extraction, raised, status>>
       ELSE RaiseHTTP(400)
    /\ UNCHANGED <<handler, strategy, chunk_size, overlap, chunker_vars,
                   source, extracted>>

PartTexts(parts) == [i \in 1..Len(parts) |-> parts[i].text]

\* The result of _extract_pdf_text once the extractors are through.
PdfJoin(parts) == Join(PartTexts(parts), <<"\n", "\n">>)

\* _extract_pdf_text, the end: no text_parts is an error.
extract_pdf_join ==
    /\ pc = "pdf_join"
    /\ IF text_parts = << >>
       THEN RaiseHTTP(400) /\ UNCHANGED extracted
       ELSE ReturnText(PdfJoin(text_parts))
    /\ UNCHANGED <<handler, strategy, chunk_size, overlap, chunker_vars,
                   source, decoders, text_parts>>

\* _extract_text_file: the decoded contents, stripped; an exception is a 400.
extract_text_file ==
    /\ pc = "text_file"
    /\ decoders' = Append(decoders, "text")
    /\ IF source.parser_raises
       THEN RaiseHTTP(400) /\ UNCHANGED extracted
       ELSE ReturnText(Strip(source.body))
    /\ UNCHANGED <<handler, strategy, chunk_size, overlap, chunker_vars,
                   source, text_parts>>

\* _extract_docx_text: the paragraphs joined; none, or an exception, is a 400.
extract_docx_text ==
    /\ pc = "docx"
    /\ decoders' = Append(decoders, "docx")
    /\ IF source.parser_raises \/ Strip(source.body) = << >>
       THEN RaiseHTTP(400) /\ UNCHANGED extracted
       ELSE ReturnText(Strip(source.body))
    /\ UNCHANGED <<handler, strategy, chunk_size, overlap, chunker_vars,
                   source, text_parts>>

\* _extract_html_text: the visible text, cleaned; an exception is a 400.
extract_html_text ==
    /\ pc = "html"
    /\ decoders' = Append(decoders, "html")
    /\ IF source.parser_raises
       THEN RaiseHTTP(400) /\ UNCHANGED extracted
       ELSE ReturnText(Strip(source.body))
    /\ UNCHANGED <<handler, strategy, chunk_size, overlap, chunker_vars,
                   source, text_parts>>

\* The test `if response.status != 200`: only a 200 passes it.
IsSuccess(http_status) == http_status = 200

\* How the try block of extract_from_url ends: with the text, or with the
\* exception that leaves it.  A response that is no success raises an
\* HTTPException(400) inside the block.
TryBlock(u) ==
    CASE u.fetch = "client_error" -> "ClientError"
      [] u.fetch = "other" -> "Exception"
      [] ~IsSuccess(u.http_status) -> "HTTPException"
      [] OTHER -> "return"

\* The except clauses: an aiohttp.ClientError becomes a 400; every other
\* exception, the HTTPException of the block included, becomes a 500.
ExceptClause(exception) == IF exception = "ClientError" THEN 400 ELSE 500

\* URLExtractor.extract_from_url.
extract_from_url ==
    /\ pc = "fetch"
    /\ IF TryBlock(source) = "return"
       THEN ReturnText(Strip(source.body))
       ELSE RaiseHTTP(ExceptClause(TryBlock(source))) /\ UNCHANGED extracted
    /\ decoders' = Append(decoders, "fetch")
    /\ UNCHANGED <<handler, strategy, chunk_size, overlap, chunker_vars,
                   source, text_parts>>

\* extract_text_from_file and extract_text_from_url: the response of the
\* extraction routes.
extract_respond ==
    /\ pc = "extracted"
    /\ handler \in {"extract_file", "extract_url"}
    /\ pc' = "done"
    /\ status' = 200
    /\ UNCHANGED <<handler, strategy, chunk_size, overlap, chunker_vars,
                   extractor_vars>>

\* text = text_response.text
ChunkerInput_truncated(t) == IF t = << >> THEN t ELSE Tail(t)

ChunkerInput(t) == t

\* chunk_file and chunk_url, step 2: the DocumentChunkRequest built from the
\* extracted text is refused when the text is empty.
chunk_extracted_invalid ==
    /\ pc = "extracted"
    /\ handler \in {"chunk_file", "chunk_url"}
    /\ ~ValidChunkRequest(ChunkerInput(extracted), chunk_size, overlap)
    /\ pc' = "failed"
    /\ status' = RouteStatus(handler, "ValueError")
    /\ UNCHANGED <<handler, strategy, chunk_size, overlap, chunker_vars,
                   extractor_vars>>

\* chunk_file and chunk_url, step 2: chunk_document on the extracted text.
chunk_extracted ==
    /\ pc = "extracted"
    /\ handler \in {"chunk_file", "chunk_url"}
    /\ ValidChunkRequest(ChunkerInput(extracted), chunk_size, overlap)
    /\ Enter(handler, ChunkerInput(extracted), strategy, chunk_size, overlap)

\* chunk.metadata.update({...}): the source's attribution.  The file's name
\* and the URL are not varied: "upload" and "url" stand for them.
SourceTags ==
    IF handler = "chunk_file"
    THEN [source_file |-> "upload", source_type |-> "file",
          content_type |-> source.content_type]
    ELSE [source_url |-> "url", source_type |-> "url"]

\* chunk_file and chunk_url, the end: every chunk is tagged with its source.
tag_chunks ==
    /\ pc = "tagging"
    /\ chunks' = [i \in 1..Len(chunks) |->
                     [chunks[i] EXCEPT !.metadata = SourceTags @@ chunks[i].metadata]]
    /\ pc' = "done"
    /\ status' = 200
    /\ UNCHANGED <<handler, text, strategy, chunk_size, overlap, units, start,
                   chunk_id, embeddings, extractor_vars>>

Next ==
    \/ Call
    \/ RequestRejected
    \/ RequestAccepted
    \/ chunk_by_character
    \/ chunk_by_token
    \/ chunk_by_sentence
    \/ chunk_by_paragraph
    \/ chunk_document_return
    \/ embedding_request_invalid
    \/ create_embeddings_raises
    \/ create_embeddings_returns
    \/ chunk_and_embed_attach
    \/ FileRequestAccepted
    \/ FileRequestRejected
    \/ UrlRequestAccepted
    \/ UrlRequestRejected
    \/ extract_text
    \/ library_unavailable
    \/ extract_pdf_plumber
    \/ extract_pdf_fallback
    \/ extract_pdf_join
    \/ extract_text_file
    \/ extract_docx_text
    \/ extract_html_text
    \/ extract_from_url
    \/ extract_respond
    \/ chunk_extracted_invalid
    \/ chunk_extracted
    \/ tag_chunks

Spec == Init /\ [][Next]_vars

(***************************************************************************)
(* Properties.                                                             *)
(***************************************************************************)
\* The configuration the chunker's contract asks for.
ValidConfig == 0 <= overlap /\ overlap < chunk_size

IsRequest == handler \in {"chunk", "chunk_and_embed"}

HasEmbedding(chunk) == "embedding" \in DOMAIN chunk.metadata

\* C1: character strategy, non-empty text, 0 <= overlap < chunk_size: the
\* window loop terminates.  Text, chunk_size and overlap never change, so the
\* loop is a function of start alone and reaches "start >= len(text)" only
\* if every iteration entered with start < len(text) leaves start larger (an
\* iteration that does not raise start makes end = len(text), after which
\* start = len(text) - overlap for ever).
C1_CharacterTerminates ==
    [][(pc = "character" /\ ValidConfig /\ Len(text) > 0 /\ start < Len(text))
          => start' > start]_vars

\* C2: character strategy on Digits (length 10), chunk_size 4, overlap 1:
\* the chunk list is at every moment a prefix of [0,4), [3,7), [6,10) and is
\* exactly these three once returned.
C2_ScenarioSpans == <<(<<0, 4>>), (<<3, 7>>), (<<6, 10>>)>>

C2_ScenarioThreeChunks ==
    (handler = "call" /\ strategy = "character" /\ text = Digits
        /\ chunk_size = 4 /\ overlap = 1)
    => /\ Len(chunks) <= 3
       /\ \A i \in 1..Len(chunks) :
              <<chunks[i].start_index, chunks[i].end_index>> = C2_ScenarioSpans[i]
       /\ (pc = "done" => Len(chunks) = 3)

\* C3: a request with chunk_overlap >= chunk_size is rejected: no chunk is
\* ever produced for it and it is never answered with success.
C3_DegenerateConfigRejected ==
    (IsRequest /\ overlap >= chunk_size) => (chunks = << >> /\ status # 200)

\* C4: a successful chunk_and_embed over N chunks holds exactly N vectors and
\* chunk i carries the gateway's vector i.
C4_EmbeddingPairing ==
    (handler = "chunk_and_embed" /\ pc = "done")
    => /\ Len(embeddings) = Len(chunks)
       /\ \A i \in 1..Len(chunks) :
              HasEmbedding(chunks[i]) /\ chunks[i].metadata.embedding = embeddings[i]

\* C5: when the gateway returned fewer vectors than there are chunks and
\* chunk_and_embed has failed, no chunk carries an embedding.
C5_NoChunkAnnotatedOnMismatch ==
    (handler = "chunk_and_embed" /\ pc = "failed" /\ Len(embeddings) < Len(chunks))
    => \A i \in 1..Len(chunks) : ~HasEmbedding(chunks[i])

\* C6: for every strategy, the last returned chunk ends within the text.
C6_FinalEndWithinText ==
    (pc = "done" /\ ValidConfig /\ chunks # << >>)
    => chunks[Len(chunks)].end_index <= Len(text)

\* C7: for every strategy, a non-empty text yields at least one chunk.
C7_AtLeastOneChunk ==
    (pc = "done" /\ ValidConfig /\ Len(text) > 0) => Len(chunks) >= 1

\* C8: for every strategy, start_index never decreases along the returned chunks.
C8_OriginalTextOrder ==
    (pc = "done" /\ ValidConfig)
    => \A i \in 1..(Len(chunks) - 1) :
           chunks[i].start_index <= chunks[i + 1].start_index

\* C9: for every strategy, at every moment, the ids of the chunks emitted so
\* far are 0, 1, ..., N-1 in emission order.
C9_DenseIds == \A i \in 1..Len(chunks) : chunks[i].id = i - 1

\* A sentence run with overlapping chunks that has emitted three chunks or more.
C9_Witness ==
    /\ pc = "sentence"
    /\ overlap > 0
    /\ Len(chunks) >= 3

\* C10: character strategy with overlap < chunk_size: every chunk has
\* 0 <= start_index < end_index <= len(text), its content is the characters
\* of the text from start_index up to end_index, and its length is their number.
C10_ExactCharacterIndices ==
    (strategy = "character" /\ ValidConfig)
    => \A i \in 1..Len(chunks) :
           LET c == chunks[i]
           IN  /\ 0 <= c.start_index
               /\ c.start_index < c.end_index
               /\ c.end_index <= Len(text)
               /\ c.content = SubSeq(text, c.start_index + 1, c.end_index)
               /\ c.length = c.end_index - c.start_index

\* C11: character strategy with overlap < chunk_size: every chunk after the
\* first starts overlap characters before the end of the chunk before it.
C11_OverlapInvariant ==
    (strategy = "character" /\ ValidConfig)
    => \A i \in 1..(Len(chunks) - 1) :
           chunks[i + 1].start_index = chunks[i].end_index - overlap

\* A character run with a non-zero overlap that has emitted three chunks.
C11_Witness ==
    /\ pc = "character"
    /\ ValidConfig
    /\ overlap > 0
    /\ Len(chunks) >= 3

Unsupported ==
    /\ source.kind = "file"
    /\ source.content_type \notin SUPPORTED_TYPES

\* C12: once extract_text has acted on a file whose declared content type is
\* outside the supported set, it has raised a 4xx HTTPException, no decoder
\* was invoked and no text was extracted.
C12_UnsupportedTypeFailsFast ==
    (Unsupported /\ pc # "extract_text")
    => /\ extraction = "failed"
       /\ raised \in 400..499
       /\ decoders = << >>
       /\ extracted = << >>

\* extract_text has refused an application/zip upload of an allowed size.
C12_Witness ==
    /\ Unsupported
    /\ source.size <= MaxFileSize
    /\ extraction = "failed"
    /\ raised = 400

\* The fetch was made and the server answered.
Fetched == source.kind = "url" /\ source.fetch = "ok" /\ decoders # << >>

\* C13 (as stated): once extract_from_url has acted on a response, a non-2xx
\* status has made it raise a 4xx HTTPException, and any 2xx status has made
\* it return the page's text.
C13_StatusClassification ==
    Fetched
    => IF source.http_status \in 200..299
       THEN extraction = "ok"
       ELSE extraction = "failed" /\ raised \in 400..499

Pipeline == handler \in {"chunk_file", "chunk_url"}

\* chunk_document has been entered: the positions from its loop onwards.
Chunking == pc \in {"character", "token", "sentence", "paragraph", "tagging", "done"}

\* C14: in chunk_file and chunk_url, while extraction has not succeeded
\* chunk_document has not been entered and there is no chunk; a failed
\* extraction ends the request without a chunk list; and once chunk_document
\* has been entered, extraction had succeeded and the chunker's text is
\* exactly the extracted text.
C14_ExtractThenChunk ==
    Pipeline =>
       /\ extraction # "ok" => (~Chunking /\ text = << >> /\ chunks = << >>)
       /\ extraction = "failed" => (pc = "failed" /\ status # 200)
       /\ Chunking => (extraction = "ok" /\ text = extracted)

\* chunk_file has answered with the tagged chunks of a text of several
\* characters extracted from the upload.
C14_Witness ==
    /\ handler = "chunk_file"
    /\ pc = "done"
    /\ extraction = "ok"
    /\ Len(extracted) > 1
    /\ Len(chunks) >= 1

\* The strategy's function is about to return its chunks.
Returning == pc \in {"character", "token", "sentence", "paragraph"} /\ ~LoopCondition

\* C15: for every text, chunk_size and overlap, the semantic strategy and
\* the sentence strategy both return exactly the chunk sequence that
\* _chunk_by_sentence computes for these arguments: same ids, contents,
\* indices, lengths and metadata.
C15_SemanticIsSentence ==
    (strategy \in {"semantic", "sentence"} /\ Returning)
    => chunks = SentenceChunks(text, chunk_size, overlap)

\* A semantic run that returns several chunks.
C15_Witness ==
    /\ strategy = "semantic"
    /\ Returning
    /\ Len(chunks) >= 2

\* A request, with a size and an overlap the schema accepts, has asked for
\* the chunks of an empty text: in the body of /chunk or /chunk-and-embed, or
\* as the text extracted from the file or the URL.
ChunkingEmptyText ==
    /\ chunk_size >= ChunkSizeGe /\ chunk_size <= ChunkSizeLe
    /\ overlap >= ChunkOverlapGe /\ overlap <= ChunkOverlapLe
    /\ \/ handler \in {"chunk", "chunk_and_embed"} /\ pc # "idle" /\ text = << >>
       \/ Pipeline /\ extraction = "ok" /\ extracted = << >> /\ pc # "extracted"

\* C16 (as stated): chunking an empty text raises no error and returns a
\* result with zero chunks, total_chunks 0 and original_length 0.
C16_EmptyTextYieldsEmptyResult ==
    ChunkingEmptyText
    => /\ pc \notin {"rejected", "failed"}
       /\ pc = "done" => (chunks = << >> /\ total_chunks = 0 /\ original_length = 0)

\* The units the chunk emitted by this step holds.
Consumed ==
    LET md == chunks'[Len(chunks')].metadata
    IN  IF pc = "sentence" THEN md.sentence_count ELSE md.paragraph_count

\* C17: every outer iteration of the sentence and the paragraph loop, for
\* every overlap, emits one chunk and moves the starting unit index forward by
\* at least 1 (sentence: by max(1, consumed - overlap)) and not past the last
\* unit, so that there are never more chunks than units passed.
C17_ForwardProgress ==
    [][(pc \in {"sentence", "paragraph"} /\ pc' = pc)
       => /\ Len(chunks') = Len(chunks) + 1
          /\ start' >= start + 1
          /\ pc = "sentence" => start' - start = Max(1, Consumed - overlap)
          /\ Len(chunks') <= start'
          /\ start' <= Len(units)]_vars

\* A sentence run has gone past a chunk that held no more sentences than the
\* overlap.
C17_Witness ==
    /\ pc = "sentence"
    /\ Len(chunks) >= 2
    /\ chunks[1].metadata.sentence_count <= overlap

RECURSIVE TotalLength(_)
\* The sum of the lengths of the units of us.
TotalLength(us) == IF us = << >> THEN 0 ELSE Len(Head(us)) + TotalLength(Tail(us))

\* The chunk c is made of the n whole sentences that follow sentence st.
IsSentenceRun(c, st, n) ==
    LET run == Slice(units, st, st + n)
    IN  /\ c.metadata.sentence_count = n
        /\ c.content = Join(run, <<".", " ">>)
        /\ n > 1 => TotalLength(run) <= chunk_size
        /\ (\E i \in 1..n : Len(run[i]) > chunk_size) => n = 1

\* C18: in a sentence run every chunk is a run of consecutive whole
\* sentences joined by ". "; with more than one sentence their lengths sum to
\* at most chunk_size; a sentence longer than chunk_size is alone in its
\* chunk, whole.
C18_WholeSentences ==
    pc = "sentence"
    => \A i \in 1..Len(chunks) :
          \E n \in 1..Len(units) : \E st \in 0..(Len(units) - n) :
              IsSentenceRun(chunks[i], st, n)

\* A sentence run has emitted a chunk of two sentences and a chunk of one
\* sentence that is longer than chunk_size.
C18_Witness ==
    /\ pc = "sentence"
    /\ \E i \in 1..Len(chunks) : chunks[i].metadata.sentence_count >= 2
    /\ \E i \in 1..Len(chunks) :
          /\ chunks[i].metadata.sentence_count = 1
          /\ chunks[i].length > chunk_size

IsPdf == source.kind = "file" /\ source.content_type = "application/pdf"

\* _extract_pdf_text has been entered and left.
PdfOver ==
    /\ decoders # << >>
    /\ pc \notin {"pdf_plumber", "pdf_fallback", "pdf_join"}

\* C19: on a PDF, pdfplumber is tried first and PyPDF2 is used exactly when
\* pdfplumber raised; when both raised, or no page text was collected, the
\* extraction has failed with an HTTPException; a successful extraction has
\* returned a text that is not empty.
C19_PdfFallback ==
    IsPdf =>
       /\ decoders \in {<< >>, <<"pdfplumber">>, <<"pdfplumber", "PyPDF2">>}
       /\ Len(decoders) = 2 => ~source.plumber.ok
       /\ PdfOver => (Len(decoders) = 2 <=> ~source.plumber.ok)
       /\ (PdfOver /\ ~source.plumber.ok /\ ~source.pypdf.ok)
              => (extraction = "failed" /\ raised = 400)
       /\ (PdfOver /\ text_parts = << >>)
              => (extraction = "failed" /\ raised = 400)
       /\ extraction = "ok" => extracted # << >>

\* A PDF with a page without text on which pdfplumber raised and PyPDF2
\* yielded the text that was returned.
C19_Witness ==
    /\ IsPdf
    /\ \E i \in 1..Len(source.pages) : source.pages[i] = << >>
    /\ decoders = <<"pdfplumber", "PyPDF2">>
    /\ extraction = "ok"

\* The last window of a token run ended at the last word: start_idx was set
\* to end_idx - overlap with end_idx = len(words).
ReachedLastWord ==
    /\ pc = "token"
    /\ Len(chunks) >= 1
    /\ start + overlap = Len(units)

\* C20 (as stated): token strategy with 0 <= overlap < chunk_size: after the
\* window that reaches the last word no further window is produced, so the
\* loop terminates.
C20_TokenTerminates ==
    [][(ReachedLastWord /\ ValidConfig) => Len(chunks') = Len(chunks)]_vars

\* An outer iteration of the paragraph loop of a run with chunk_overlap = 0:
\* the chunk it emits holds the paragraphs start .. start + Consumed - 1, and
\* the next chunk begins at paragraph start'.
ParagraphStepNoOverlap == pc = "paragraph" /\ pc' = pc /\ overlap = 0

\* C21 (as stated): paragraph strategy with chunk_overlap = 0: the next chunk
\* begins after the last paragraph of the chunk just emitted, so no paragraph
\* is included in two chunks.
C21_NoSharedParagraph ==
    [][ParagraphStepNoOverlap => start' >= start + Consumed]_vars

\* C21 (amended): paragraph strategy with chunk_overlap = 0: the next chunk
\* begins at the last paragraph of a chunk of several paragraphs, and right
\* after a chunk of one paragraph; consecutive chunks share at most that one
\* paragraph.
C21_SharesLastParagraphOnly ==
    [][ParagraphStepNoOverlap
       => /\ Consumed >= 2 => start' = start + Consumed - 1
          /\ Consumed = 1 => start' = start + 1]_vars

\* A paragraph run without overlap has emitted a chunk of two paragraphs and
\* the chunk after it.
C21_Witness ==
    /\ pc = "paragraph"
    /\ overlap = 0
    /\ Len(chunks) >= 2
    /\ chunks[1].metadata.paragraph_count >= 2

\* C22 (as stated): a PDF extraction that returns has joined each page's
\* text at most once, also when pdfplumber raised after yielding text for some
\* pages and PyPDF2 then ran.
C22_NoPageTwice ==
    (IsPdf /\ extraction = "ok")
    => /\ extracted = PdfJoin(text_parts)
       /\ \A i, j \in 1..Len(text_parts) :
             text_parts[i].page = text_parts[j].page => i = j

====================================================================
